---- MODULE Spec2Model ----
(***************************************************************************)
(* Model of scripts/sudachi_tokenize.py: one run of the command-line tool. *)
(*                                                                         *)
(* Text is modelled as a sequence of Unicode code points, so that          *)
(* str.strip(), json.dumps() and print() are computed character by         *)
(* character.  The SudachiPy library is an oracle: dictionary              *)
(* construction, tokenize() and the morpheme accessors either return or    *)
(* raise, and tokenize() returns any sequence of morphemes.                *)
(***************************************************************************)
EXTENDS Integers, Sequences, FiniteSets, TLC

(***************************************************************************)
(* Bounds of the model.                                                    *)
(***************************************************************************)
MaxArgs == 2
MaxStdinLen == 2
MaxMorphemes == 2

(***************************************************************************)
(* Generic helpers.                                                        *)
(***************************************************************************)
SeqsUpTo(S, n) == UNION { [1..k -> S] : k \in 0..n }

RECURSIVE Flatten(_)
Flatten(ss) == IF ss = <<>> THEN <<>> ELSE Head(ss) \o Flatten(Tail(ss))

RECURSIVE Join(_, _)
Join(sep, parts) ==
    IF parts = <<>> THEN <<>>
    ELSE IF Len(parts) = 1 THEN parts[1]
    ELSE parts[1] \o sep \o Join(sep, Tail(parts))

CountOf(c, s) == Cardinality({ i \in 1..Len(s) : s[i] = c })

(***************************************************************************)
(* The environment of a run: command line, standard input, and whether     *)
(* the sudachipy package can be imported.                                  *)
(***************************************************************************)
ModeValues == {"A", "B", "C", "X"}
\* paths given to --config: "", "sudachi.json" (a loadable configuration) and
\* "missing.json" (no such file)
EmptyPath == <<>>
SudachiJson == <<115, 117, 100, 97, 99, 104, 105, 46, 106, 115, 111, 110>>
MissingJson == <<109, 105, 115, 115, 105, 110, 103, 46, 106, 115, 111, 110>>
ConfigValues == {EmptyPath, SudachiJson, MissingJson}

ArgItems ==
    { [opt |-> "--mode", val |-> m] : m \in ModeValues }
      \cup { [opt |-> "--config", val |-> c] : c \in ConfigValues }
      \cup { [opt |-> "--help", val |-> ""], [opt |-> "extra", val |-> ""] }

\* code points: LF, IDEOGRAPHIC SPACE, "a"
StdinAlphabet == {10, 12288, 97}

\* the characters str.strip() removes: those for which str.isspace() holds
Whitespace ==
    {9, 10, 11, 12, 13, 28, 29, 30, 31, 32, 133, 160, 5760, 8232, 8233, 8239,
     8287, 12288} \cup (8192..8202)

(***************************************************************************)
(* The morphemes the library may return, given by their accessor results.  *)
(* part_of_speech() returns a tuple of strings.                            *)
(***************************************************************************)
Morphemes ==
    { [surface |-> <<97>>, dictionary_form |-> <<26481>>, reading_form |-> <<12488>>,
       part_of_speech |-> << <<100>>, <<123>> >>, normalized_form |-> <<37117>>],
      [surface |-> <<10>>, dictionary_form |-> <<34>>, reading_form |-> <<92>>,
       part_of_speech |-> <<>>, normalized_form |-> <<1, 127>>] }

VARIABLES
    sudachipy_installed,  \* environment: can sudachipy be imported
    argv,                 \* environment: the command-line arguments
    stdin,                \* environment: the content of standard input
    pc,                   \* position in the script
    args,                 \* the namespace parse_args returned
    raw_text, text,       \* locals of main
    dict_calls,           \* dict_args of every dictionary.Dictionary(...) call
    tokenize_calls,       \* arguments of every tokenize(...) call
    morphemes,            \* what tokenize returned
    idx,                  \* position of the for loop in morphemes
    payload,              \* the list main builds
    stdout, stderr,       \* what has been written to the two streams
    raised,               \* where an exception of the library was raised
    exit_code             \* exit status, -1 while running

vars == <<sudachipy_installed, argv, stdin, pc, args, raw_text, text,
          dict_calls, tokenize_calls, morphemes, idx, payload, stdout, stderr,
          raised, exit_code>>

env == <<sudachipy_installed, argv, stdin>>

Init ==
    /\ sudachipy_installed \in BOOLEAN
    /\ argv \in SeqsUpTo(ArgItems, MaxArgs)
    /\ stdin \in SeqsUpTo(StdinAlphabet, MaxStdinLen)
    /\ pc = "import"
    /\ args = [mode |-> "", config |-> [type |-> "NoneType", val |-> <<>>]]
    /\ raw_text = <<>>
    /\ text = <<>>
    /\ dict_calls = <<>>
    /\ tokenize_calls = <<>>
    /\ morphemes = <<>>
    /\ idx = 1
    /\ payload = <<>>
    /\ stdout = <<>>
    /\ stderr = <<>>
    /\ raised = "none"
    /\ exit_code = -1


(***************************************************************************)
(* Python values that appear in the script.                                *)
(***************************************************************************)
None == [type |-> "NoneType", val |-> <<>>]
Str(s) == [type |-> "str", val |-> s]
Tuple(items) == [type |-> "tuple", val |-> items]

\* list(x): a new list holding the items of the iterable x
List(x) == [type |-> "list", val |-> x.val]

\* bool(x) as used by "if x" / "not x"
Truthy(x) == x.type # "NoneType" /\ x.val # <<>>

(***************************************************************************)
(* parse_args: argparse with --mode (choices A, B, C, default C), --config *)
(* (default None) and the -h/--help option every ArgumentParser adds.      *)
(* Arguments are consumed left to right: --help prints the help and exits  *)
(* 0 when it is reached, a --mode value outside the choices is an error    *)
(* when it is reached, and unrecognised arguments are an error reported    *)
(* after the last argument.                                                *)
(***************************************************************************)
\* choices that let any mode through
ChoicesUnchecked == {"A", "B", "C", "X"}

Choices == {"A", "B", "C"}

DefaultNamespace == [mode |-> "C", config |-> None]

RECURSIVE ParseFrom(_, _, _)
ParseFrom(rest, ns, extras) ==
    IF rest = <<>>
    THEN [outcome |-> IF extras THEN "error" ELSE "ok", ns |-> ns]
    ELSE LET a == Head(rest) IN
         CASE a.opt = "--help" -> [outcome |-> "help", ns |-> ns]
           [] a.opt = "--mode" ->
                IF a.val \in Choices
                THEN ParseFrom(Tail(rest), [ns EXCEPT !.mode = a.val], extras)
                ELSE [outcome |-> "error", ns |-> ns]
           [] a.opt = "--config" ->
                ParseFrom(Tail(rest), [ns EXCEPT !.config = Str(a.val)], extras)
           [] OTHER -> ParseFrom(Tail(rest), ns, TRUE)

parse_args(av) == ParseFrom(av, DefaultNamespace, FALSE)

HelpText ==
    << 117, 115, 97, 103, 101, 58, 32, 115, 117, 100, 97, 99, 104, 105, 95, 116,
       111, 107, 101, 110, 105, 122, 101, 46, 112, 121, 32, 91, 45, 104, 93, 32,
       91, 45, 45, 109, 111, 100, 101, 32, 123, 65, 44, 66, 44, 67, 125, 93, 32,
       91, 45, 45, 99, 111, 110, 102, 105, 103, 32, 67, 79, 78, 70, 73, 71, 93,
       10, 10, 84, 111, 107, 101, 110, 105, 122, 101, 32, 74, 97, 112, 97, 110,
       101, 115, 101, 32, 116, 101, 120, 116, 32, 119, 105, 116, 104, 32, 83,
       117, 100, 97, 99, 104, 105, 80, 121, 10, 10, 111, 112, 116, 105, 111, 110,
       115, 58, 10, 32, 32, 45, 104, 44, 32, 45, 45, 104, 101, 108, 112, 32, 32,
       32, 32, 32, 32, 32, 115, 104, 111, 119, 32, 116, 104, 105, 115, 32, 104,
       101, 108, 112, 32, 109, 101, 115, 115, 97, 103, 101, 32, 97, 110, 100, 32,
       101, 120, 105, 116, 10, 32, 32, 45, 45, 109, 111, 100, 101, 32, 123, 65,
       44, 66, 44, 67, 125, 32, 32, 32, 83, 117, 100, 97, 99, 104, 105, 32, 115,
       112, 108, 105, 116, 32, 109, 111, 100, 101, 32, 40, 67, 32, 61, 32, 99,
       111, 97, 114, 115, 101, 44, 32, 66, 32, 61, 32, 109, 105, 100, 100, 108,
       101, 44, 32, 65, 32, 61, 32, 102, 105, 110, 101, 41, 10, 32, 32, 45, 45,
       99, 111, 110, 102, 105, 103, 32, 67, 79, 78, 70, 73, 71, 32, 32, 79, 112,
       116, 105, 111, 110, 97, 108, 32, 112, 97, 116, 104, 32, 116, 111, 32, 115,
       117, 100, 97, 99, 104, 105, 46, 106, 115, 111, 110, 32, 99, 111, 110, 102,
       105, 103, 117, 114, 97, 116, 105, 111, 110, 32, 40, 100, 101, 102, 97,
       117, 108, 116, 115, 32, 116, 111, 10, 32, 32, 32, 32, 32, 32, 32, 32, 32,
       32, 32, 32, 32, 32, 32, 32, 32, 32, 32, 83, 117, 100, 97, 99, 104, 105,
       80, 121, 32, 98, 117, 110, 100, 108, 101, 100, 32, 99, 111, 110, 102, 105,
       103, 41, 10 >>

(***************************************************************************)
(* str.strip(): drop leading and trailing whitespace.                      *)
(***************************************************************************)
RECURSIVE lstrip(_)
lstrip(s) ==
    IF s # <<>> /\ Head(s) \in Whitespace THEN lstrip(Tail(s)) ELSE s

RECURSIVE rstrip(_)
rstrip(s) ==
    IF s # <<>> /\ s[Len(s)] \in Whitespace
    THEN rstrip(SubSeq(s, 1, Len(s) - 1))
    ELSE s

\* a strip that knows the space character only
RECURSIVE strip_spaces(_)
strip_spaces(s) ==
    IF s # <<>> /\ Head(s) = 32 THEN strip_spaces(Tail(s))
    ELSE IF s # <<>> /\ s[Len(s)] = 32 THEN strip_spaces(SubSeq(s, 1, Len(s) - 1))
    ELSE s

strip(s) == rstrip(lstrip(s))

(***************************************************************************)
(* json.dumps(obj, ensure_ascii=...) with the default separators.          *)
(***************************************************************************)
HexDigit(n) == IF n < 10 THEN 48 + n ELSE 87 + n

UEscape(c) ==
    <<92, 117, HexDigit(c \div 4096), HexDigit((c \div 256) % 16),
      HexDigit((c \div 16) % 16), HexDigit(c % 16)>>

\* an escape that handles the quotation mark and the backslash only
EscapeCharQuotesOnly(c, ensure_ascii) ==
    CASE c = 34 -> <<92, 34>>
      [] c = 92 -> <<92, 92>>
      [] OTHER -> <<c>>

EscapeChar(c, ensure_ascii) ==
    CASE c = 34 -> <<92, 34>>
      [] c = 92 -> <<92, 92>>
      [] c = 10 -> <<92, 110>>
      [] c = 13 -> <<92, 114>>
      [] c = 9 -> <<92, 116>>
      [] c = 8 -> <<92, 98>>
      [] c = 12 -> <<92, 102>>
      [] OTHER -> IF c < 32 \/ (ensure_ascii /\ c > 126)
                  THEN UEscape(c)
                  ELSE <<c>>

DumpStr(s, ensure_ascii) ==
    <<34>> \o Flatten([i \in 1..Len(s) |-> EscapeChar(s[i], ensure_ascii)])
           \o <<34>>

DumpValue(v, ensure_ascii) ==
    CASE v.type = "str" -> DumpStr(v.val, ensure_ascii)
      [] v.type \in {"list", "tuple"} ->
           <<91>> \o Join(<<44, 32>>,
                          [i \in 1..Len(v.val) |-> DumpStr(v.val[i], ensure_ascii)])
                  \o <<93>>
      [] OTHER -> <<110, 117, 108, 108>>

\* a dict is the sequence of its (key, value) items in insertion order
DumpDict(d, ensure_ascii) ==
    <<123>> \o Join(<<44, 32>>,
                    [i \in 1..Len(d) |->
                        DumpStr(d[i][1], ensure_ascii) \o <<58, 32>>
                          \o DumpValue(d[i][2], ensure_ascii)])
            \o <<125>>

dumps(lst, ensure_ascii) ==
    <<91>> \o Join(<<44, 32>>,
                   [i \in 1..Len(lst) |-> DumpDict(lst[i], ensure_ascii)])
           \o <<93>>

\* print(s): the text and a newline
print(s) == s \o <<10>>

(***************************************************************************)
(* The dict main builds for one morpheme.                                  *)
(***************************************************************************)
KeySurface == <<115, 117, 114, 102, 97, 99, 101>>
KeyDictionaryForm ==
    <<100, 105, 99, 116, 105, 111, 110, 97, 114, 121, 70, 111, 114, 109>>
KeyReading == <<114, 101, 97, 100, 105, 110, 103>>
KeyPartOfSpeech == <<112, 97, 114, 116, 79, 102, 83, 112, 101, 101, 99, 104>>
KeyNormalizedForm ==
    <<110, 111, 114, 109, 97, 108, 105, 122, 101, 100, 70, 111, 114, 109>>

\* a dict whose reading is taken from surface()
MorphemeDictReadingFromSurface(m) ==
    << <<KeySurface, Str(m.surface)>>,
       <<KeyDictionaryForm, Str(m.dictionary_form)>>,
       <<KeyReading, Str(m.surface)>>,
       <<KeyPartOfSpeech, List(Tuple(m.part_of_speech))>>,
       <<KeyNormalizedForm, Str(m.normalized_form)>> >>

MorphemeDict(m) ==
    << <<KeySurface, Str(m.surface)>>,
       <<KeyDictionaryForm, Str(m.dictionary_form)>>,
       <<KeyReading, Str(m.reading_form)>>,
       <<KeyPartOfSpeech, List(Tuple(m.part_of_speech))>>,
       <<KeyNormalizedForm, Str(m.normalized_form)>> >>

\* an append that skips a dict the list already holds
append_unique(lst, d) ==
    IF \E i \in 1..Len(lst) : lst[i] = d THEN lst ELSE Append(lst, d)

\* payload.append(d)
append(lst, d) == Append(lst, d)

\* dict_args that never carries the configuration path
DictArgsIgnoringConfig(ns) == {}

\* dict_args of main: config_path is passed only for a truthy args.config
DictArgs(ns) ==
    IF Truthy(ns.config) THEN {<<"config_path", ns.config.val>>} ELSE {}

\* getattr(tokenizer.Tokenizer.SplitMode, name)
SplitMode(name) == [enum |-> "SplitMode", name |-> name]

\* the library can load a configuration file that exists
Loadable(dict_args) == <<"config_path", MissingJson>> \notin dict_args

MissingDependencyMessage ==
    "SudachiPy is not installed. Run pnpm run sudachi:setup before using this script.\n"

(***************************************************************************)
(* The steps of the script.                                                *)
(***************************************************************************)
Exit(code) == pc' = "exited" /\ exit_code' = code

\* lines 8-9: the import succeeds
ImportOk ==
    /\ pc = "import"
    /\ sudachipy_installed
    /\ pc' = "parse_args"
    /\ UNCHANGED <<env, args, raw_text, text, dict_calls, tokenize_calls,
                   morphemes, idx, payload, stdout, stderr, raised, exit_code>>

\* the import fails and the message goes to stdout
ImportFailedPrints ==
    /\ pc = "import"
    /\ ~sudachipy_installed
    /\ stdout' = stdout \o <<83, 117, 100, 97, 99, 104, 105, 80, 121, 10>>
    /\ pc' = "exited"
    /\ exit_code' = 1
    /\ UNCHANGED <<env, args, raw_text, text, dict_calls, tokenize_calls,
                   morphemes, idx, payload, stderr, raised>>

\* lines 10-14: the import fails
ImportFailed ==
    /\ pc = "import"
    /\ ~sudachipy_installed
    /\ stderr' = Append(stderr, [by |-> "script", text |-> MissingDependencyMessage])
    /\ Exit(1)
    /\ UNCHANGED <<env, args, raw_text, text, dict_calls, tokenize_calls,
                   morphemes, idx, payload, stdout, raised>>

\* line 34: parse_args returns the namespace
ParseArgsOk ==
    /\ pc = "parse_args"
    /\ parse_args(argv).outcome = "ok"
    /\ args' = parse_args(argv).ns
    /\ pc' = "read"
    /\ UNCHANGED <<env, raw_text, text, dict_calls, tokenize_calls, morphemes,
                   idx, payload, stdout, stderr, raised, exit_code>>

\* line 34: argparse prints the help message to stdout and exits with 0
ParseArgsHelp ==
    /\ pc = "parse_args"
    /\ parse_args(argv).outcome = "help"
    /\ stdout' = stdout \o HelpText
    /\ Exit(0)
    /\ UNCHANGED <<env, args, raw_text, text, dict_calls, tokenize_calls,
                   morphemes, idx, payload, stderr, raised>>

\* line 34: argparse prints usage and the error to stderr and exits with 2
ParseArgsError ==
    /\ pc = "parse_args"
    /\ parse_args(argv).outcome = "error"
    /\ stderr' = Append(stderr, [by |-> "argparse", text |-> "usage and error"])
    /\ Exit(2)
    /\ UNCHANGED <<env, args, raw_text, text, dict_calls, tokenize_calls,
                   morphemes, idx, payload, stdout, raised>>

\* lines 35-36
ReadStdin ==
    /\ pc = "read"
    /\ raw_text' = stdin
    /\ text' = strip(stdin)
    /\ pc' = "check"
    /\ UNCHANGED <<env, args, dict_calls, tokenize_calls, morphemes, idx,
                   payload, stdout, stderr, raised, exit_code>>

\* the short-circuit writing its array to stderr
EmptyInputToStderr ==
    /\ pc = "check"
    /\ ~Truthy(Str(text))
    /\ stderr' = Append(stderr, [by |-> "script", text |-> "[]\n"])
    /\ pc' = "exited"
    /\ exit_code' = 0
    /\ UNCHANGED <<env, args, raw_text, text, dict_calls, tokenize_calls,
                   morphemes, idx, payload, stdout, raised>>

\* lines 38-40: the empty-input short-circuit
EmptyInput ==
    /\ pc = "check"
    /\ ~Truthy(Str(text))
    /\ stdout' = stdout \o print(<<91, 93>>)
    /\ Exit(0)
    /\ UNCHANGED <<env, args, raw_text, text, dict_calls, tokenize_calls,
                   morphemes, idx, payload, stderr, raised>>

\* an exception nobody catches: traceback on stderr, exit status 1
Unhandled(where) ==
    /\ raised' = where
    /\ stderr' = Append(stderr, [by |-> "interpreter", text |-> "Traceback"])
    /\ Exit(1)

\* the dictionary built without regard to the emptiness of text
DictionaryCreateAnyText ==
    /\ pc = "check"
    /\ Loadable(DictArgs(args))
    /\ dict_calls' = Append(dict_calls, DictArgs(args))
    /\ pc' = "tokenize"
    /\ UNCHANGED <<env, args, raw_text, text, tokenize_calls, morphemes, idx,
                   payload, stdout, stderr, raised, exit_code>>

\* lines 42-46: dictionary.Dictionary(**dict_args).create() returns
DictionaryCreate ==
    /\ pc = "check"
    /\ Truthy(Str(text))
    /\ Loadable(DictArgs(args))
    /\ dict_calls' = Append(dict_calls, DictArgs(args))
    /\ pc' = "tokenize"
    /\ UNCHANGED <<env, args, raw_text, text, tokenize_calls, morphemes, idx,
                   payload, stdout, stderr, raised, exit_code>>

\* lines 42-46: dictionary.Dictionary(**dict_args).create() raises
DictionaryRaises ==
    /\ pc = "check"
    /\ Truthy(Str(text))
    /\ dict_calls' = Append(dict_calls, DictArgs(args))
    /\ Unhandled("Dictionary")
    /\ UNCHANGED <<env, args, raw_text, text, tokenize_calls, morphemes, idx,
                   payload, stdout>>

\* lines 47-50: tokenize returns a sequence of morphemes
Tokenize ==
    /\ pc = "tokenize"
    /\ \E ms \in SeqsUpTo(Morphemes, MaxMorphemes) : morphemes' = ms
    /\ tokenize_calls' =
         Append(tokenize_calls, [text |-> text, mode |-> SplitMode(args.mode)])
    /\ payload' = <<>>
    /\ idx' = 1
    /\ pc' = "loop"
    /\ UNCHANGED <<env, args, raw_text, text, dict_calls, stdout, stderr,
                   raised, exit_code>>

\* lines 47-49: tokenize raises
TokenizeRaises ==
    /\ pc = "tokenize"
    /\ tokenize_calls' =
         Append(tokenize_calls, [text |-> text, mode |-> SplitMode(args.mode)])
    /\ Unhandled("tokenize")
    /\ UNCHANGED <<env, args, raw_text, text, dict_calls, morphemes, idx,
                   payload, stdout>>

\* an iteration that prints each dict as soon as it is built
LoopBodyStreaming ==
    /\ pc = "loop"
    /\ idx <= Len(morphemes)
    /\ payload' = append(payload, MorphemeDict(morphemes[idx]))
    /\ stdout' = stdout \o DumpDict(MorphemeDict(morphemes[idx]), FALSE)
    /\ idx' = idx + 1
    /\ UNCHANGED <<env, pc, args, raw_text, text, dict_calls, tokenize_calls,
                   morphemes, stderr, raised, exit_code>>

\* lines 51-60: one iteration of the for loop
LoopBody ==
    /\ pc = "loop"
    /\ idx <= Len(morphemes)
    /\ payload' = append(payload, MorphemeDict(morphemes[idx]))
    /\ idx' = idx + 1
    /\ UNCHANGED <<env, pc, args, raw_text, text, dict_calls, tokenize_calls,
                   morphemes, stdout, stderr, raised, exit_code>>

\* lines 51-60: an accessor of the current morpheme raises
AccessorRaises ==
    /\ pc = "loop"
    /\ idx <= Len(morphemes)
    /\ Unhandled("accessor")
    /\ UNCHANGED <<env, args, raw_text, text, dict_calls, tokenize_calls,
                   morphemes, idx, payload, stdout>>

\* line 62, after the loop has consumed every morpheme
PrintPayload ==
    /\ pc = "loop"
    /\ idx > Len(morphemes)
    /\ stdout' = stdout \o print(dumps(payload, FALSE))
    /\ Exit(0)
    /\ UNCHANGED <<env, args, raw_text, text, dict_calls, tokenize_calls,
                   morphemes, idx, payload, stderr, raised>>

Next ==
    \/ ImportOk
    \/ ImportFailed
    \/ ParseArgsOk
    \/ ParseArgsHelp
    \/ ParseArgsError
    \/ ReadStdin
    \/ EmptyInput
    \/ DictionaryCreate
    \/ DictionaryRaises
    \/ Tokenize
    \/ TokenizeRaises
    \/ LoopBody
    \/ AccessorRaises
    \/ PrintPayload

Spec == Init /\ [][Next]_vars

TypeOK ==
    /\ pc \in {"import", "parse_args", "read", "check", "tokenize", "loop", "exited"}
    /\ exit_code \in {-1, 0, 1, 2}
    /\ idx \in 1..(Len(morphemes) + 1)


(***************************************************************************)
(* Properties.                                                             *)
(***************************************************************************)
Terminated == pc = "exited"

WhitespaceOnly(s) == \A i \in 1..Len(s) : s[i] \in Whitespace

EmptyArrayLine == <<91, 93, 10>>

Lines(s) == CountOf(10, s)

\* Reading a printed JSON text: a quotation mark delimits a string literal
\* when an even number of backslashes precedes it, and a character is inside
\* a literal when an odd number of delimiters precedes it.
BackslashesBefore(s, j) ==
    CHOOSE k \in 0..(j - 1) :
        /\ \A m \in 1..k : s[j - m] = 92
        /\ k = j - 1 \/ s[j - k - 1] # 92

IsDelimiter(s, j) == s[j] = 34 /\ BackslashesBefore(s, j) % 2 = 0

InLiteral(s, i) ==
    Cardinality({ j \in 1..(i - 1) : IsDelimiter(s, j) }) % 2 = 1

\* number of JSON objects in a printed text: the "{" outside string literals
ObjectsIn(s) ==
    Cardinality({ i \in 1..Len(s) : s[i] = 123 /\ ~InLiteral(s, i) })

\* what the command line names, read off argv itself
HasInvalidMode(av) ==
    \E i \in 1..Len(av) : av[i].opt = "--mode" /\ av[i].val \notin {"A", "B", "C"}

OnlyValidOptions(av) ==
    \A i \in 1..Len(av) :
        \/ av[i].opt = "--mode" /\ av[i].val \in {"A", "B", "C"}
        \/ av[i].opt = "--config"

Supplied(av, opt) == \E i \in 1..Len(av) : av[i].opt = opt

LastGiven(av, opt) ==
    av[CHOOSE i \in 1..Len(av) :
          /\ av[i].opt = opt
          /\ \A j \in (i + 1)..Len(av) : av[j].opt # opt].val

ModeNamed(av) == IF Supplied(av, "--mode") THEN LastGiven(av, "--mode") ELSE "C"

WrittenBy(who) == { i \in 1..Len(stderr) : stderr[i].by = who }

\* C1 as stated: every terminated run whose standard input is empty or
\* whitespace only has written exactly the line [] to stdout and has exit
\* status 0.
C1_Original ==
    (Terminated /\ WhitespaceOnly(stdin))
        => (stdout = EmptyArrayLine /\ exit_code = 0)

\* C1 amended: every terminated run whose standard input is empty or whitespace
\* only, in which sudachipy is importable and the command line consists of valid
\* --mode and --config options, has written exactly the line [] to stdout and has exit status 0.
C1_EmptyInputPrintsEmptyArray ==
    (Terminated /\ WhitespaceOnly(stdin) /\ sudachipy_installed
       /\ OnlyValidOptions(argv))
        => (stdout = EmptyArrayLine /\ exit_code = 0)

C1_Witness ==
    /\ Terminated
    /\ sudachipy_installed
    /\ OnlyValidOptions(argv)
    /\ stdin = <<10>>
    /\ text = <<>>
    /\ stdout = EmptyArrayLine
    /\ exit_code = 0

\* C2: when a run with non-empty trimmed input has printed its array, the
\* array has one element per morpheme tokenize returned, element i is the dict
\* built from morpheme i, and the printed text is the serialisation of exactly
\* that list.
C2_ArrayMatchesMorphemes ==
    (Terminated /\ exit_code = 0 /\ text # <<>>)
        => /\ Len(payload) = Len(morphemes)
           /\ \A i \in 1..Len(morphemes) : payload[i] = MorphemeDict(morphemes[i])
           /\ stdout = print(dumps(payload, FALSE))
           /\ ObjectsIn(stdout) = Len(morphemes)

C2_Witness ==
    /\ Terminated
    /\ exit_code = 0
    /\ text # <<>>
    /\ Len(morphemes) >= 2
    /\ morphemes[1] = morphemes[2]
    /\ ObjectsIn(stdout) = Len(morphemes)

\* C3: when sudachipy cannot be imported, nothing is ever written to stdout,
\* the library is never used, and the run ends with exit status 1 and the
\* diagnostic message on stderr, whatever argv and stdin are.
C3_MissingDependency ==
    ~sudachipy_installed
        => /\ stdout = <<>>
           /\ dict_calls = <<>> /\ tokenize_calls = <<>>
           /\ pc \in {"import", "exited"}
           /\ Terminated =>
                /\ exit_code = 1
                /\ stderr = <<[by |-> "script", text |-> MissingDependencyMessage]>>

C3_Witness ==
    /\ Terminated
    /\ ~sudachipy_installed
    /\ argv # <<>>
    /\ stdin # <<>>
    /\ exit_code = 1
    /\ stderr # <<>>


\* C4: a run whose command line carries a --mode value outside A, B, C never
\* constructs the dictionary and never calls tokenize: it does not get past
\* parse_args; and a command line made of --mode A|B|C and --config options
\* only is accepted: parse_args returns, with the last mode given.
C4_ModeValidation ==
    /\ HasInvalidMode(argv)
         => /\ dict_calls = <<>> /\ tokenize_calls = <<>>
            /\ pc \in {"import", "parse_args", "exited"}
    /\ (sudachipy_installed /\ OnlyValidOptions(argv)
          /\ pc \notin {"import", "parse_args"})
         => /\ exit_code # 2
            /\ WrittenBy("argparse") = {}
            /\ args.mode = ModeNamed(argv)

C4_Witness ==
    /\ Terminated
    /\ sudachipy_installed
    /\ HasInvalidMode(argv)
    /\ ~WhitespaceOnly(stdin)
    /\ exit_code = 2
    /\ dict_calls = <<>>

\* C5 as stated: in every run in which sudachipy is importable, neither the
\* script nor its argument parser writes anything to stderr.
C5_Original ==
    sudachipy_installed => WrittenBy("script") = {} /\ WrittenBy("argparse") = {}

\* C5 amended: the script writes to stderr only the missing-dependency
\* message, and only when sudachipy cannot be imported; its argument parser
\* writes to stderr only when it rejects the command line; so in every run in
\* which sudachipy is importable and the command line is not rejected the
\* tool itself writes nothing to stderr.
C5_StderrUse ==
    /\ \A i \in WrittenBy("script") :
          ~sudachipy_installed /\ stderr[i].text = MissingDependencyMessage
    /\ WrittenBy("argparse") # {}
          => sudachipy_installed /\ (HasInvalidMode(argv) \/ Supplied(argv, "extra"))
    /\ (sudachipy_installed /\ ~HasInvalidMode(argv) /\ ~Supplied(argv, "extra"))
          => WrittenBy("script") = {} /\ WrittenBy("argparse") = {}

C5_Witness ==
    /\ Terminated
    /\ sudachipy_installed
    /\ OnlyValidOptions(argv)
    /\ WhitespaceOnly(stdin)
    /\ stdout = EmptyArrayLine
    /\ stderr = <<>>

\* C6 as stated: a run that ends with exit status 0 has written exactly one
\* line to stdout, and no run writes more than one line to stdout.
C6_Original ==
    /\ (Terminated /\ exit_code = 0)
         => Lines(stdout) = 1 /\ stdout[Len(stdout)] = 10
    /\ Lines(stdout) <= 1

\* C6 amended: a run that ends with exit status 0 without having been asked
\* for the help message (-h/--help) has written exactly one line to stdout, a
\* JSON array followed by a newline; no run other than a help run writes more
\* than one line; and both the empty-input short-circuit and the tokenization
\* path on which the library raises nothing end with exit status 0.
C6_OneLine ==
    /\ ~Supplied(argv, "--help")
         => /\ (Terminated /\ exit_code = 0)
                 => /\ Lines(stdout) = 1
                    /\ stdout[Len(stdout)] = 10
                    /\ stdout[1] = 91 /\ stdout[Len(stdout) - 1] = 93
            /\ Lines(stdout) <= 1
    /\ (Terminated /\ sudachipy_installed /\ OnlyValidOptions(argv)
          /\ raised = "none")
         => exit_code = 0

C6_Witness ==
    /\ Terminated
    /\ exit_code = 0
    /\ ~Supplied(argv, "--help")
    /\ \E i \in 1..Len(morphemes) : morphemes[i].surface = <<10>>
    /\ Lines(stdout) = 1

\* C7: in a run whose trimmed input is empty the dictionary is never
\* constructed, tokenize is never called and no failure of the library
\* occurs, whatever --config names; the run does not get past the check.
C7_ShortCircuitFirst ==
    WhitespaceOnly(stdin)
        => /\ dict_calls = <<>> /\ tokenize_calls = <<>>
           /\ raised = "none"
           /\ pc \notin {"tokenize", "loop"}
           /\ (Terminated /\ sudachipy_installed /\ OnlyValidOptions(argv))
                 => exit_code = 0 /\ stdout = EmptyArrayLine

C7_Witness ==
    /\ Terminated
    /\ WhitespaceOnly(stdin)
    /\ args.config = Str(MissingJson)
    /\ exit_code = 0
    /\ stdout = EmptyArrayLine
    /\ dict_calls = <<>>

\* C8: every element of the array is a dict with exactly the five keys
\* surface, dictionaryForm, reading, partOfSpeech, normalizedForm, in this
\* order, each holding the result of the corresponding accessor of its
\* morpheme; partOfSpeech is a list of strings, possibly empty.
C8_ElementShape ==
    \A i \in 1..Len(payload) :
        LET d == payload[i]
            m == morphemes[i]
        IN /\ Len(d) = 5
           /\ <<d[1][1], d[2][1], d[3][1], d[4][1], d[5][1]>> =
                <<KeySurface, KeyDictionaryForm, KeyReading, KeyPartOfSpeech,
                  KeyNormalizedForm>>
           /\ d[1][2] = [type |-> "str", val |-> m.surface]
           /\ d[2][2] = [type |-> "str", val |-> m.dictionary_form]
           /\ d[3][2] = [type |-> "str", val |-> m.reading_form]
           /\ d[5][2] = [type |-> "str", val |-> m.normalized_form]
           /\ d[4][2].type = "list"
           /\ d[4][2].val = m.part_of_speech
           /\ \A k \in 1..Len(d[4][2].val) : d[4][2].val[k] \in Seq(Nat)

C8_Witness ==
    /\ Terminated
    /\ exit_code = 0
    /\ Len(payload) >= 2
    /\ payload[1][4][2] = [type |-> "list", val |-> <<>>]
    /\ Len(payload[2][4][2].val) = 2
    /\ stdout = print(dumps(payload, FALSE))

\* C9 as stated: every terminated run with non-empty trimmed input has
\* constructed the dictionary once and called tokenize exactly once with the
\* trimmed text and the mode --mode names (C by default); the dictionary got
\* the given path whenever --config was supplied, and no path only when
\* --config was absent.
C9_Original ==
    (Terminated /\ ~WhitespaceOnly(stdin))
        => /\ Len(dict_calls) = 1
           /\ Len(tokenize_calls) = 1
           /\ tokenize_calls[1].text = text
           /\ tokenize_calls[1].mode = [enum |-> "SplitMode", name |-> ModeNamed(argv)]
           /\ Supplied(argv, "--config")
                => dict_calls[1] = {<<"config_path", LastGiven(argv, "--config")>>}
           /\ ~Supplied(argv, "--config") => dict_calls[1] = {}

\* C9 amended: every terminated run with non-empty trimmed input in which
\* sudachipy is importable and the command line is accepted has called the
\* Dictionary constructor exactly once, with the given path when --config was
\* supplied with a non-empty value and with no argument (the bundled
\* configuration) when --config was absent or empty; unless that construction
\* raised, tokenize was called exactly once, with the trimmed text and the
\* split mode --mode names (C by default).
C9_ConstructAndTokenizeOnce ==
    (Terminated /\ ~WhitespaceOnly(stdin) /\ sudachipy_installed
       /\ OnlyValidOptions(argv))
        => /\ Len(dict_calls) = 1
           /\ IF Supplied(argv, "--config") /\ LastGiven(argv, "--config") # <<>>
              THEN dict_calls[1] = {<<"config_path", LastGiven(argv, "--config")>>}
              ELSE dict_calls[1] = {}
           /\ raised = "Dictionary" => tokenize_calls = <<>>
           /\ raised # "Dictionary"
                => /\ Len(tokenize_calls) = 1
                   /\ tokenize_calls[1].text # <<>>
                   /\ tokenize_calls[1].text = rstrip(lstrip(stdin))
                   /\ tokenize_calls[1].mode =
                        [enum |-> "SplitMode", name |-> ModeNamed(argv)]

C9_Witness ==
    /\ Terminated
    /\ exit_code = 0
    /\ Supplied(argv, "--config")
    /\ LastGiven(argv, "--config") = <<>>
    /\ dict_calls = <<{}>>
    /\ Len(tokenize_calls) = 1
    /\ Len(raw_text) > Len(text)

\* C10: once the library has raised (in the Dictionary construction, in
\* tokenize or in an accessor) the run has ended with exit status 1, a
\* traceback of the interpreter on stderr and nothing on stdout; and a run
\* with non-empty text has nothing on stdout before every morpheme is mapped.
C10_FailurePropagates ==
    /\ raised # "none"
         => /\ Terminated
            /\ exit_code = 1
            /\ stdout = <<>>
            /\ stderr # <<>> /\ stderr[Len(stderr)].by = "interpreter"
    /\ (text # <<>> /\ stdout # <<>>)
         => /\ Terminated /\ raised = "none"
            /\ idx = Len(morphemes) + 1
            /\ Len(payload) = Len(morphemes)

C10_Witness ==
    /\ raised = "accessor"
    /\ idx = 2
    /\ Len(payload) = 1
    /\ Len(morphemes) >= 2
    /\ stdout = <<>>
    /\ exit_code = 1

====
